---- MODULE Spec2Model ----
(***************************************************************************)
(* A model of tabiew's entry point, src/main.rs: the choice of the input   *)
(* files (command line or standard input), stdin_to_tmp, the loading and   *)
(* registration of every input file, the construction of the application,  *)
(* the terminal user interface's set-up, the main event loop and the       *)
(* terminal's restoration.                                                 *)
(*                                                                         *)
(* The library half of the crate (tabiew::app, tabiew::sql, tabiew::tui)   *)
(* is not part of src/; what main needs of it (SqlBackend::register,       *)
(* App::new, App::running, App::tick, App::handle_key_event) is modelled   *)
(* from the specification of the registry and of the application state     *)
(* machine.                                                                *)
(***************************************************************************)
EXTENDS Integers, Sequences, FiniteSets, TLC

\* ------------------------------------------------------------------ bounds

\* The longest list of paths on the command line.
MaxFiles == 2
\* The longest standard input, in characters.
MaxStdin == 2
\* The number of events the event stream delivers before the model stops.
MaxEvents == 3

\* ------------------------------------------------------------ the inputs

\* A path is its directory, its file stem and its extension.  ".." has no
\* file name, so  Path::file_stem  returns None for it.
Path(d, s, e) == [dir |-> d, stem |-> s, ext |-> e]
DotDot == Path("", "", "")
ACsv == Path("", "a", "csv")
DACsv == Path("d", "a", "csv")
BParquet == Path("", "b", "parquet")
Paths == {ACsv, DACsv, BParquet, DotDot}

\* The path NamedTempFile::keep returns: a hidden file, whose stem is its
\* whole name.
TmpPath == Path("tmp", ".tmpXYZ", "")

\* What the files on disk hold: what kind of bytes, and which table they
\* encode.  a.csv and d/a.csv share a stem and hold different tables; no
\* file is decodable in both formats, so every command line format meets
\* files its reader fails on.
Disk(path) ==
    CASE path = ACsv -> [kind |-> "dsv", data |-> "A1"]
      [] path = DACsv -> [kind |-> "dsv", data |-> "A2"]
      [] path = BParquet -> [kind |-> "parquet", data |-> "B1"]
      [] OTHER -> [kind |-> "missing", data |-> "none"]

Chars == {"a", "\n"}
Formats == {"Dsv", "Parquet"}

RECURSIVE SeqsUpTo(_, _)
SeqsUpTo(S, n) ==
    IF n = 0 THEN {<<>>}
    ELSE LET shorter == SeqsUpTo(S, n - 1)
         IN  shorter \cup {Append(s, x) : s \in {t \in shorter : Len(t) = n - 1}, x \in S}

\* -------------------------------------------------------------- the state

VARIABLES
    args,         \* Args::parse(): [stdin, files, format]
    windows,      \* cfg(target_os = "windows") of the build
    stdin_data,   \* everything standard input will deliver
    stdin_pos,    \* how many characters of it have been read
    tmpfile,      \* the content of the temporary file of stdin_to_tmp
    files,        \* the iterator  files  of main
    tabs,         \* the tabs collected so far, then the tabs of the app
    sql_backend,  \* the registry: effective name -> [table, path]
    app,          \* [running, mode, status] once App::new has run
    tui,          \* [inited, exits]
    ev,           \* the event tui.events.next() returned, until matched
    draws,        \* the number of snapshots drawn
    consumed,     \* the number of events taken from the event stream
    handled,      \* the number of calls of app.tick / app.handle_key_event
    last_handled, \* the position in the stream of the last event handled
    result,       \* how main ended: "Ok", the error it returned, or its panic
    pc            \* where main is

vars == <<args, windows, stdin_data, stdin_pos, tmpfile, files, tabs,
          sql_backend, app, tui, ev, draws, consumed, handled, last_handled,
          result, pc>>

stdin_vars == <<stdin_data, stdin_pos, tmpfile>>
load_vars == <<files, tabs, sql_backend>>
loop_vars == <<ev, draws, consumed, handled, last_handled, result>>
const_vars == <<args, windows>>

NoApp == [running |-> FALSE, mode |-> "none", status |-> "none"]
NoEvent == [type |-> "none"]

Init ==
    /\ args \in [stdin : BOOLEAN, files : SeqsUpTo(Paths, MaxFiles), format : Formats]
    /\ windows \in BOOLEAN
    /\ stdin_data \in IF args.stdin THEN SeqsUpTo(Chars, MaxStdin) ELSE {<<>>}
    /\ stdin_pos = 0
    /\ tmpfile = <<>>
    /\ files = <<>>
    /\ tabs = <<>>
    /\ sql_backend = <<>>
    /\ app = NoApp
    /\ tui = [inited |-> FALSE, exits |-> 0]
    /\ ev = NoEvent
    /\ draws = 0
    /\ consumed = 0
    /\ handled = 0
    /\ last_handled = 0
    /\ result = "none"
    /\ pc = "start"

\* ------------------------------------------------------- main, lines 31-34

\* let files = match args.stdin { true => vec![stdin_to_tmp()], _ => args.files }
FilesWithArgsToo(stdin_flag, tmp, arg_files) ==
    IF stdin_flag THEN <<tmp>> \o arg_files ELSE arg_files

FilesIter(stdin_flag, tmp, arg_files) ==
    IF stdin_flag THEN <<tmp>> ELSE arg_files

ChooseFiles ==
    /\ pc = "start"
    /\ IF args.stdin
       THEN /\ pc' = "stdin_to_tmp"
            /\ UNCHANGED files
       ELSE /\ files' = FilesIter(FALSE, TmpPath, args.files)
            /\ pc' = "load"
    /\ UNCHANGED <<const_vars, stdin_vars, tabs, sql_backend, app, tui, loop_vars>>

\* ------------------------------------------------------------ stdin_to_tmp

\* The index of the last character  read_line  takes when it starts at i:
\* the next newline, or the end of the input.
RECURSIVE LineEnd(_, _)
LineEnd(data, i) ==
    IF i >= Len(data) THEN Len(data)
    ELSE IF data[i] = "\n" THEN i
    ELSE LineEnd(data, i + 1)

\* io::stdin().read_line(&mut buffer): appends the line, its newline
\* included, to the (empty) buffer; the empty line at end of input.
ReadLine(data, pos) == SubSeq(data, pos + 1, LineEnd(data, pos + 1))

\* writeln!(file, "{}", buffer): the buffer, then a newline.
WriteLn(file, buffer) == file \o buffer \o <<"\n">>

\* One turn of  while read_line(..) != 0 { take the buffer; writeln }.
StdinReadLine ==
    /\ pc = "stdin_to_tmp"
    /\ LET buffer == ReadLine(stdin_data, stdin_pos)
       IN  /\ Len(buffer) # 0
           /\ stdin_pos' = stdin_pos + Len(buffer)
           /\ tmpfile' = WriteLn(tmpfile, buffer)
    /\ UNCHANGED <<const_vars, stdin_data, load_vars, app, tui, loop_vars, pc>>

\* read_line returns 0: the loop ends, file.keep() gives the path, and the
\* path becomes the only element of  files.
StdinEof ==
    /\ pc = "stdin_to_tmp"
    /\ Len(ReadLine(stdin_data, stdin_pos)) = 0
    /\ files' = FilesIter(TRUE, TmpPath, args.files)
    /\ pc' = "load"
    /\ UNCHANGED <<const_vars, stdin_vars, tabs, sql_backend, app, tui, loop_vars>>

\* ------------------------------------------- read_csv, read_parquet

Ok(df) == [ok |-> TRUE, df |-> df]
Err == [ok |-> FALSE, df |-> "none"]

\* The bytes at a path: the temporary file holds what stdin_to_tmp wrote.
ReadFile(path, tmp_content) ==
    IF path = TmpPath THEN [kind |-> "text", data |-> tmp_content] ELSE Disk(path)

\* read_csv: the reader's error (no file, no data, bytes that are no
\* delimited text) is returned by  ? ; otherwise the table read.
read_csv(content) ==
    CASE content.kind = "dsv" -> Ok(content.data)
      [] content.kind = "text" /\ content.data # <<>> -> Ok(content.data)
      [] OTHER -> Err

\* read_parquet: File::open or the reader may fail; otherwise the table.
read_parquet(content) ==
    IF content.kind = "parquet" THEN Ok(content.data) ELSE Err

\* match args.format { Dsv => read_csv(..), Parquet => read_parquet(..) }
ReadTable(format, content) ==
    IF format = "Dsv" THEN read_csv(content) ELSE read_parquet(content)

\* path.file_stem(): None for a path with no file name.
HasFileStem(path) == path.stem # ""

\* ---------------------------------------------------- SqlBackend::register

\* A table name: the name asked for, and the number of its suffix (0: none).
TableName(base, n) == [base |-> base, n |-> n]

Names(backend) == {backend[i].name : i \in DOMAIN backend}

\* The name actually stored: the name itself when it is free, else the name
\* with the first free numeric suffix.
EffectiveName(backend, base) ==
    TableName(base, CHOOSE n \in 0..Len(backend) :
                        /\ TableName(base, n) \notin Names(backend)
                        /\ \A m \in 0..(n - 1) : TableName(base, m) \in Names(backend))

register(backend, base, table, path) ==
    LET name == EffectiveName(backend, base)
    IN  [name |-> name,
         backend |-> Append(backend, [name |-> name, table |-> table, path |-> path])]

\* lookup(name): the entries stored under the name (one, or none).
lookup(backend, name) == {backend[i] : i \in {j \in DOMAIN backend : backend[j].name = name}}

\* ------------------------------------------------------ main, lines 37-65

\* TabularType::Name(name): the  name  in scope at line 63 is the one
\* register returned (it shadows the file stem of line 39).
TabularNameOfStem(stem, effective) == TableName(stem, 0)

TabularName(stem, effective) == effective

\* Tabular::new(df, ..): the tab is given the table itself; the registry
\* was given df.clone().
TabularNew(df, name) == [df |-> df, name |-> name]

\* As if the tabs of one stem displayed one shared table.
CollectShared(collected, tab) ==
    Append([i \in DOMAIN collected |->
               IF collected[i].name.base = tab.name.base
               THEN [collected[i] EXCEPT !.df = tab.df]
               ELSE collected[i]],
           tab)

\* .collect(): the tabs in the order of the iterator.
Collect(collected, tab) == Append(collected, tab)

\* One call of the closure of  files.map(..) : the next path's stem, its
\* table read in the format of the command line, the table's registration,
\* the tab.  A path without a file name and a reader's error both panic.
LoadFile ==
    /\ pc = "load"
    /\ Len(tabs) < Len(files)
    /\ LET path == files[Len(tabs) + 1]
           read == ReadTable(args.format, ReadFile(path, tmpfile))
           reg == register(sql_backend, path.stem, read.df, path)
       IN  IF ~HasFileStem(path)
           THEN /\ pc' = "done"
                /\ result' = "panic_file_name"
                /\ UNCHANGED <<tabs, sql_backend>>
           ELSE IF ~read.ok
           THEN /\ pc' = "done"
                /\ result' = "panic_decode"
                /\ UNCHANGED <<tabs, sql_backend>>
           ELSE /\ sql_backend' = reg.backend
                /\ tabs' = Collect(tabs,
                               TabularNew(read.df, TabularName(path.stem, reg.name)))
                /\ UNCHANGED <<pc, result>>
    /\ UNCHANGED <<const_vars, stdin_vars, files, app, tui,
                   ev, draws, consumed, handled, last_handled>>

\* ----------------------------------------------------------------- the app

\* App::new(tabs, ..): running, in Normal mode, with no status message.
AppNewState == [running |-> TRUE, mode |-> "Normal", status |-> "none"]

\* The iterator is exhausted:  tabs  is complete and the app is built.
AppNew ==
    /\ pc = "load"
    /\ Len(tabs) = Len(files)
    /\ app' = AppNewState
    /\ pc' = "tui_new"
    /\ UNCHANGED <<const_vars, stdin_vars, load_vars, tui, loop_vars>>

\* app.running()
running(a) == a.running

\* app.tick(): the status message may expire; the call may fail.
tick(a) ==
    { [app |-> a, ok |-> TRUE],
      [app |-> [a EXCEPT !.status = "none"], ok |-> TRUE],
      [app |-> a, ok |-> FALSE] }

Keys == {":", "enter", "esc"}

\* app.handle_key_event(key): Normal -(":")-> Command; Command -("esc")->
\* Normal; Command -("enter")-> the command typed is dispatched: quit ends
\* the app, an unknown command leaves a status message, and the mode is
\* Normal again.  The call may fail.
handle_key_event(a, key) ==
    { [app |-> a, ok |-> FALSE] } \cup
    { [app |-> b, ok |-> TRUE] : b \in
        CASE a.mode = "Normal" /\ key = ":" -> { [a EXCEPT !.mode = "Command"] }
          [] a.mode = "Command" /\ key = "esc" -> { [a EXCEPT !.mode = "Normal"] }
          [] a.mode = "Command" /\ key = "enter" ->
                { [a EXCEPT !.mode = "Normal", !.running = FALSE],
                  [a EXCEPT !.mode = "Normal", !.status = "error"],
                  [a EXCEPT !.mode = "Normal"] }
          [] OTHER -> { a } }

\* ------------------------------------------------------ main, lines 74-78

\* ratatui::Terminal::new(..)?  then  tui.init()? : either may fail, and main
\* returns the error.
TuiInit ==
    /\ pc = "tui_new"
    /\ \E r \in {"Ok", "err_terminal_new", "err_tui_init"} :
          IF r = "Ok"
          THEN /\ tui' = [tui EXCEPT !.inited = TRUE]
               /\ pc' = "loop_head"
               /\ UNCHANGED result
          ELSE /\ pc' = "done"
               /\ result' = r
               /\ UNCHANGED tui
    /\ UNCHANGED <<const_vars, stdin_vars, load_vars, app,
                   ev, draws, consumed, handled, last_handled>>

\* ----------------------------------------------------- main, lines 80-106

\* while app.running() { .. }
LoopForever(a) == TRUE

LoopCondition(a) == running(a)

LoopHead ==
    /\ pc = "loop_head"
    /\ pc' = IF LoopCondition(app) THEN "draw" ELSE "tui_exit"
    /\ UNCHANGED <<const_vars, stdin_vars, load_vars, app, tui, loop_vars>>

\* tui.draw::<Theme>(&mut app)? : the same call for every theme.
Draw ==
    /\ pc = "draw"
    /\ \E r \in {"Ok", "err_draw"} :
          IF r = "Ok"
          THEN /\ draws' = draws + 1
               /\ pc' = "events_next"
               /\ UNCHANGED result
          ELSE /\ pc' = "done"
               /\ result' = r
               /\ UNCHANGED draws
    /\ UNCHANGED <<const_vars, stdin_vars, load_vars, app, tui,
                   ev, consumed, handled, last_handled>>

KeyKinds == {"Press", "Release"}

Events ==
    {[type |-> "Tick"], [type |-> "Mouse"], [type |-> "Resize"]}
    \cup {[type |-> "Key", key |-> k, kind |-> kd] : k \in Keys, kd \in KeyKinds}

\* tui.events.next()? : the next event of the stream, or its error.
EventsNext ==
    /\ pc = "events_next"
    /\ consumed < MaxEvents
    /\ \/ /\ \E e \in Events : ev' = e
          /\ consumed' = consumed + 1
          /\ pc' = "dispatch"
          /\ UNCHANGED result
       \/ /\ pc' = "done"
          /\ result' = "err_events_next"
          /\ UNCHANGED <<ev, consumed>>
    /\ UNCHANGED <<const_vars, stdin_vars, load_vars, app, tui,
                   draws, handled, last_handled>>

\* The arm of  match tui.events.next()?  an event takes: which method of
\* app it is passed to.  On Windows a key event is passed on only when it
\* is a press or a repeat.
HandlerMouseTicks(e, on_windows) ==
    CASE e.type \in {"Tick", "Mouse"} -> "tick"
      [] e.type = "Key" -> "handle_key_event"
      [] OTHER -> "none"

Handler(e, on_windows) ==
    CASE e.type = "Tick" -> "tick"
      [] e.type = "Key" ->
            IF on_windows /\ e.kind \notin {"Press", "Repeat"}
            THEN "none" ELSE "handle_key_event"
      [] e.type = "Mouse" -> "none"
      [] e.type = "Resize" -> "none"

\* Where the loop goes once the match is over: back to its head.
SkipDraw == "events_next"

AfterMatch == "loop_head"

\* The match of lines 88-105 on the event just taken.
Dispatch ==
    /\ pc = "dispatch"
    /\ ev' = NoEvent
    /\ LET h == Handler(ev, windows)
       IN  IF h = "none"
           THEN /\ pc' = AfterMatch
                /\ UNCHANGED <<app, handled, last_handled, result>>
           ELSE \E o \in (IF h = "tick" THEN tick(app)
                          ELSE handle_key_event(app, ev.key)) :
                   /\ app' = o.app
                   /\ handled' = handled + 1
                   /\ last_handled' = consumed
                   /\ IF o.ok
                      THEN pc' = AfterMatch /\ UNCHANGED result
                      ELSE pc' = "done" /\ result' = "err_" \o h
    /\ UNCHANGED <<const_vars, stdin_vars, load_vars, tui, draws, consumed>>

\* ---------------------------------------------------- main, lines 108-110

\* tui.exit()?; Ok(())
TuiExit ==
    /\ pc = "tui_exit"
    /\ tui' = [tui EXCEPT !.exits = @ + 1]
    /\ pc' = "done"
    /\ \E r \in {"Ok", "err_tui_exit"} : result' = r
    /\ UNCHANGED <<const_vars, stdin_vars, load_vars, app,
                   ev, draws, consumed, handled, last_handled>>

Next ==
    \/ ChooseFiles
    \/ StdinReadLine
    \/ StdinEof
    \/ LoadFile
    \/ AppNew
    \/ TuiInit
    \/ LoopHead
    \/ Draw
    \/ EventsNext
    \/ Dispatch
    \/ TuiExit

Spec == Init /\ [][Next]_vars

\* main runs on one thread and every step of it returns: no step that can
\* be taken is put off for ever.
FairSpec == Spec /\ WF_vars(Next)

\* ============================================================== the claims

\* App::new has run: start-up is over.
StartupDone == app # NoApp

\* main has returned (or panicked).
Returned == pc = "done"

\* The table the reader gives for the i-th input file.
TableOf(i) == ReadTable(args.format, ReadFile(files[i], tmpfile)).df

SameStemTwice ==
    /\ Len(tabs) = 2
    /\ tabs[1].name.base = tabs[2].name.base

\* C1: once the loop head finds app.running() false, the loop is left for
\* tui.exit(); from then on nothing is drawn, no event is taken, no handler
\* is called and the app is not touched; and main then returns.
ExitSignaled == pc = "loop_head" /\ ~running(app)

C1_Step ==
    /\ ExitSignaled => pc' = "tui_exit"
    /\ pc \in {"tui_exit", "done"} =>
          /\ draws' = draws
          /\ consumed' = consumed
          /\ handled' = handled
          /\ app' = app
          /\ pc' = "done"

C1_NoEventAfterExit ==
    /\ [][C1_Step]_vars
    /\ ExitSignaled ~> (Returned /\ tui.exits = 1)

C1_Witness ==
    /\ Returned
    /\ result = "Ok"
    /\ ~running(app)
    /\ handled >= 2
    /\ draws = consumed

\* C2 (as claimed): whatever app.tick() or app.handle_key_event() returns,
\* main does not end before app.running() is false.
C2_HandlerErrorKeepsLoopRunning ==
    (Returned /\ result \in {"err_tick", "err_handle_key_event"}) => ~running(app)

\* C3 (as claimed): a file the reader cannot decode is skipped; the process
\* goes on, the other files get their tabs and the app is built.
C3_DecodeErrorSkipsOneFile ==
    LET undecodable == {i \in DOMAIN files : ~ReadTable(args.format, ReadFile(files[i], tmpfile)).ok}
    IN  (Returned /\ \A i \in DOMAIN files : HasFileStem(files[i])) =>
            /\ result # "panic_decode"
            /\ StartupDone
            /\ Len(tabs) = Len(files) - Cardinality(undecodable)

\* C4: while the files are loaded, every tab already collected keeps the
\* table it holds, which is the table read from its own file: the
\* registration of a later file, of the same stem or not, changes no tab.
C4_Step ==
    pc = "load" =>
        \A i \in DOMAIN tabs :
           /\ tabs[i].df = TableOf(i)
           /\ i \in DOMAIN tabs'
           /\ tabs'[i].df = tabs[i].df

C4_TabKeepsItsTable == [][C4_Step]_vars

C4_Witness ==
    /\ SameStemTwice
    /\ tabs[1].df = "A1"
    /\ tabs[2].df = "A2"
    /\ lookup(sql_backend, tabs[2].name) # {}

\* C5: every tab bears the name under which the registry stored its table
\* (looking the name up gives the tab's table and the tab's path), the name
\* is the file stem with or without a suffix, the names of the tabs are
\* pairwise distinct, and once start-up is over there is such a tab for
\* every file.
C5_EffectiveNames ==
    /\ \A i \in DOMAIN tabs :
          /\ tabs[i].name.base = files[i].stem
          /\ lookup(sql_backend, tabs[i].name) =
                {[name |-> tabs[i].name, table |-> tabs[i].df, path |-> files[i]]}
    /\ \A i, j \in DOMAIN tabs : i # j => tabs[i].name # tabs[j].name
    /\ StartupDone => Len(tabs) = Len(files) /\ Len(sql_backend) = Len(files)

C5_Witness ==
    /\ StartupDone
    /\ SameStemTwice
    /\ tabs[1].name.n = 0
    /\ tabs[2].name.n = 1

\* C6: in the loop, a snapshot is drawn exactly when as many events were
\* taken as snapshots drawn, and an event is taken exactly when one more
\* snapshot was drawn than events taken; a step calls at most one handler,
\* only from the match, only for a Tick or a Key event, and for the event
\* taken last, which no handler was called for before; the app changes only
\* in such a step.
C6_State ==
    /\ pc \in {"loop_head", "draw", "dispatch", "tui_exit"} => draws = consumed
    /\ pc = "events_next" => draws = consumed + 1
    /\ pc = "dispatch" <=> ev # NoEvent
    /\ handled <= last_handled
    /\ last_handled <= consumed

C6_Step ==
    /\ draws' # draws => draws' = draws + 1 /\ draws = consumed /\ consumed' = consumed
    /\ consumed' # consumed => consumed' = consumed + 1 /\ draws = consumed + 1 /\ draws' = draws
    /\ handled' # handled =>
          /\ handled' = handled + 1
          /\ pc = "dispatch"
          /\ ev.type \in {"Tick", "Key"}
          /\ last_handled < consumed
          /\ last_handled' = consumed
    /\ (StartupDone /\ handled' = handled) => app' = app

C6_OneDrawOneEventOneHandler == []C6_State /\ [][C6_Step]_vars

C6_Witness ==
    /\ pc = "loop_head"
    /\ draws = 2
    /\ consumed = 2
    /\ handled = 1
    /\ last_handled = 2

\* C7: when the app is built, files is the temporary file alone if the
\* stdin flag is set and the paths of the command line otherwise, and the
\* tabs are one per element of files, in that order, each holding the table
\* read from its file and registered with its path; no event is taken
\* before that.
C7_OneTabPerSource ==
    /\ StartupDone =>
          /\ files = IF args.stdin THEN <<TmpPath>> ELSE args.files
          /\ Len(tabs) = Len(files)
          /\ \A i \in DOMAIN files :
                /\ tabs[i].df = TableOf(i)
                /\ \E e \in lookup(sql_backend, tabs[i].name) : e.path = files[i]
          /\ args.stdin => tabs[1].df = tmpfile
    /\ (consumed > 0 \/ draws > 0) => StartupDone

C7_Witness ==
    /\ args.stdin
    /\ Len(args.files) = 2
    /\ consumed > 0
    /\ Len(tabs) = 1
    /\ tabs[1].name.base = TmpPath.stem

\* C8: the match on a Mouse or a Resize event calls no method of app: the
\* app, the tabs and the registry are as before, no handler was called, and
\* the loop is at its head again.
C8_Step ==
    (pc = "dispatch" /\ ev.type \in {"Mouse", "Resize"}) =>
        /\ app' = app
        /\ tabs' = tabs
        /\ sql_backend' = sql_backend
        /\ handled' = handled
        /\ last_handled' = last_handled
        /\ pc' = "loop_head"

C8_MouseResizeChangeNothing == [][C8_Step]_vars

C8_Witness ==
    /\ ~windows
    /\ pc = "loop_head"
    /\ consumed = 3
    /\ handled = 2
    /\ last_handled = 2
    /\ app.status = "error"

\* C9 (as claimed): when tui.init() has succeeded, tui.exit() has been
\* called exactly once when main returns.
C9_TerminalAlwaysRestored ==
    (Returned /\ tui.inited) => tui.exits = 1

\* Every line of the input ends with a newline.
NewlineTerminated(data) == data = <<>> \/ data[Len(data)] = "\n"

\* C10 (as claimed): once stdin_to_tmp has returned, the temporary file
\* holds the input, character for character.
C10_StdinCopiedUnchanged ==
    (args.stdin /\ pc \notin {"start", "stdin_to_tmp"} /\ NewlineTerminated(stdin_data)) =>
        tmpfile = stdin_data

====
